---- MODULE Spec2Model ----
(***************************************************************************)
(* The Eufy device mirror of pkg/eufy_device.py: the constructor of        *)
(* EufyDevice / EufySwitch / EufyBulb (main thread), the polling thread    *)
(* EufyDevice.poll, the physical device behind the lakeside handle, and    *)
(* property writes coming from the gateway.                                *)
(***************************************************************************)
EXTENDS Integers, Sequences, FiniteSets, TLC

(* ------------------------------ bounds -------------------------------- *)

\* how many of the device states of DevStateSeq the physical device can take
NumStates == 3

\* how many poll cycles may see their first update() fail
MaxFailedCycles == 1

(* ----------------------- constants of the program --------------------- *)

MIN_TEMPERATURE == 2700

MAX_TEMPERATURE == 6500

Classes == {"EufySwitch", "EufyBulb"}

Models == {"T1013", "T1012", "T1011", "T1201"}

\* eufy_dev.colors: attr = the handle has a 'colors' attribute,
\* rgb = <<>> for None, else the triple
NoAttr == [attr |-> FALSE, rgb |-> <<>>]

NoneColors == [attr |-> TRUE, rgb |-> <<>>]

RGB(r, g, b) == [attr |-> TRUE, rgb |-> <<r, g, b>>]

DevStateSeq ==
    << [power |-> FALSE, brightness |-> 0,   temperature |-> 0,   colors |-> NoneColors],
       [power |-> TRUE,  brightness |-> 100, temperature |-> 100, colors |-> RGB(255, 0, 0)],
       [power |-> TRUE,  brightness |-> 50,  temperature |-> 50,  colors |-> RGB(0, 0, 0)],
       [power |-> FALSE, brightness |-> 100, temperature |-> 0,   colors |-> NoAttr],
       [power |-> TRUE,  brightness |-> 0,   temperature |-> 100, colors |-> RGB(18, 171, 255)] >>

DevStates ==
    { DevStateSeq[i] : i \in 1..(IF NumStates < Len(DevStateSeq) THEN NumStates ELSE Len(DevStateSeq)) }

VARIABLES
    cls,         \* the class being constructed: EufySwitch or EufyBulb
    eufy_dev,    \* the lakeside handle: kind, the fields update() fills, the call in flight
    remote,      \* the state of the physical device
    properties,  \* self.properties: the property map, in insertion order
    dev_type,    \* self._type
    ctor,        \* the constructor (main thread): position and index in the build plan
    poll,        \* the polling thread: position, and the iterator of line 56
    cyc,         \* history of the current poll cycle
    faults,      \* number of poll cycles whose first update() failed
    stale,       \* history: the handle's fields predate the latest write
    pending,     \* the value the constructor has read for the property being built
    since,       \* history: what happened since the last refresh of each property
    parked,      \* the state of the other device, when there are two
    cur          \* the device whose thread is running

vars == <<cls, eufy_dev, remote, properties, dev_type, ctor, poll, cyc, faults, stale, pending,
          since, parked, cur>>

(* ------------------------- accessors of the device -------------------- *)

is_on(h) == h.power

is_color(h) == h.kind = "T1013"

\* a slip: the full-color model is left out of the tunable-white list
is_variable_color_temp_T1012Only(h) == h.kind \in {"T1012"}

is_variable_color_temp(h) == h.kind \in {"T1012", "T1013"}

relative_temp_to_kelvin(value) ==
    (((MAX_TEMPERATURE - MIN_TEMPERATURE) * value) \div 100) + MIN_TEMPERATURE

color_temp(h) == relative_temp_to_kelvin(h.temperature)

HexDigits == <<"0", "1", "2", "3", "4", "5", "6", "7", "8", "9", "A", "B", "C", "D", "E", "F">>

\* '{:02X}'
Hex02X(n) == HexDigits[(n \div 16) + 1] \o HexDigits[(n % 16) + 1]

color(h) ==
    IF (~h.colors.attr) \/ h.colors.rgb = <<>>
    THEN "#000000"
    ELSE "#" \o Hex02X(h.colors.rgb[1]) \o Hex02X(h.colors.rgb[2]) \o Hex02X(h.colors.rgb[3])

color_mode(h) == IF color(h) = "#000000" THEN "temperature" ELSE "color"

brightness(h) == h.brightness

\* the value a property of the given name reads from the handle
ReadCurrentValue(name, h) ==
    CASE name = "on" -> is_on(h)
      [] name = "level" -> brightness(h)
      [] name = "color" -> color(h)
      [] name = "colorTemperature" -> color_temp(h)
      [] name = "colorMode" -> color_mode(h)

(* ----------------------------- constructor ---------------------------- *)

SwitchPlan(h) == <<"on">>

BulbPlan(h) ==
    (IF is_color(h) THEN <<"color">> ELSE <<>>)
    \o (IF is_variable_color_temp(h) THEN <<"colorTemperature">> ELSE <<>>)
    \o (IF is_color(h) /\ is_variable_color_temp(h) THEN <<"colorMode">> ELSE <<>>)
    \o <<"level", "on">>

\* the properties the subclass constructor creates, in order
BuildPlan(c, h) == IF c = "EufySwitch" THEN SwitchPlan(h) ELSE BulbPlan(h)

Blank == [power |-> FALSE, brightness |-> 0, temperature |-> 0, colors |-> NoAttr]

Handle(kind, s, busy) ==
    [kind |-> kind, power |-> s.power, brightness |-> s.brightness,
     temperature |-> s.temperature, colors |-> s.colors, busy |-> busy]

NewCycle ==
    [ok |-> FALSE, recovered |-> FALSE, last |-> "none", refreshed |-> <<>>,
     notified |-> <<>>, calls |-> <<>>]

\* nothing refreshed yet, nothing written
NoHistory == [same |-> {}, wrote |-> FALSE]

Init ==
    /\ cls \in Classes
    /\ \E k \in Models : eufy_dev = Handle(k, Blank, "none")
    /\ remote \in DevStates
    /\ properties = <<>>
    /\ dev_type = <<>>
    /\ ctor = [pc |-> "connect", idx |-> 0, calls |-> <<>>, threads |-> 0]
    /\ poll = [pc |-> "unstarted", size |-> 0, pos |-> 0]
    /\ cyc = NewCycle
    /\ faults = 0
    /\ stale = FALSE
    /\ pending = <<>>
    /\ since = NoHistory
    /\ parked = <<>>
    /\ cur = 1

\* line 35: self.eufy_dev.connect(); an exception leaves the constructor
InitConnect ==
    /\ ctor.pc = "connect"
    /\ \E ok \in BOOLEAN :
         ctor' = [ctor EXCEPT !.pc = IF ok THEN "update" ELSE "failed",
                              !.calls = Append(@, [op |-> "connect", ok |-> ok])]
    /\ UNCHANGED <<cls, eufy_dev, remote, properties, dev_type, poll, cyc, faults, stale,
                 pending, since, parked, cur>>

\* a slip: the failure of the initial update() is swallowed and the
\* constructor goes on
InitUpdate_Swallow ==
    /\ ctor.pc = "update"
    /\ \E ok \in BOOLEAN :
         /\ eufy_dev' = IF ok THEN Handle(eufy_dev.kind, remote, "none") ELSE eufy_dev
         /\ ctor' = [ctor EXCEPT !.pc = "thread",
                                 !.calls = Append(@, [op |-> "update", ok |-> ok])]
    /\ UNCHANGED <<cls, remote, properties, dev_type, poll, cyc, faults, stale, pending,
                 since, parked, cur>>

\* line 36: self.eufy_dev.update(); an exception leaves the constructor
InitUpdate ==
    /\ ctor.pc = "update"
    /\ \E ok \in BOOLEAN :
         IF ok
         THEN /\ eufy_dev' = Handle(eufy_dev.kind, remote, "none")
              /\ ctor' = [ctor EXCEPT !.pc = "thread",
                                      !.calls = Append(@, [op |-> "update", ok |-> TRUE])]
         ELSE /\ ctor' = [ctor EXCEPT !.pc = "failed",
                                      !.calls = Append(@, [op |-> "update", ok |-> FALSE])]
              /\ UNCHANGED eufy_dev
    /\ UNCHANGED <<cls, remote, properties, dev_type, poll, cyc, faults, stale, pending,
                 since, parked, cur>>

\* lines 38-40: the polling thread is started, at the end of EufyDevice.__init__
StartThread ==
    /\ ctor.pc = "thread"
    /\ ctor' = [ctor EXCEPT !.pc = "extend", !.threads = @ + 1]
    /\ poll' = [poll EXCEPT !.pc = "sleep"]
    /\ UNCHANGED <<cls, eufy_dev, remote, properties, dev_type, cyc, faults, stale, pending,
                 since, parked, cur>>

\* line 77 (switch), line 104 (bulb): self._type.extend([...])
ExtendType ==
    /\ ctor.pc = "extend"
    /\ dev_type' = dev_type \o (IF cls = "EufySwitch"
                                THEN <<"OnOffSwitch", "SmartPlug">>
                                ELSE <<"OnOffSwitch", "Light">>)
    /\ ctor' = [ctor EXCEPT !.pc = "read", !.idx = 1]
    /\ UNCHANGED <<cls, eufy_dev, remote, properties, poll, cyc, faults, stale, pending,
                 since, parked, cur>>

\* the argument of the property constructor is evaluated: self.is_on(),
\* self.color(), ... (lines 87, 117, 134, 151, 165, 176); lines 107 and 121
\* append 'ColorControl' just before
BuildRead ==
    /\ ctor.pc = "read"
    /\ LET name == BuildPlan(cls, eufy_dev)[ctor.idx]
       IN  /\ pending' = <<ReadCurrentValue(name, eufy_dev)>>
           /\ dev_type' = IF name \in {"color", "colorTemperature"}
                          THEN Append(dev_type, "ColorControl")
                          ELSE dev_type
    /\ ctor' = [ctor EXCEPT !.pc = "insert"]
    /\ UNCHANGED <<cls, eufy_dev, remote, properties, poll, cyc, faults, stale, since, parked, cur>>

\* a slip: the property map is one dict shared by every device, so an
\* insertion also lands in the other device's map
BuildInsert_SharedMap ==
    /\ ctor.pc = "insert"
    /\ LET plan == BuildPlan(cls, eufy_dev)
           prop == [name |-> plan[ctor.idx], value |-> pending[1]]
       IN  /\ properties' = Append(properties, prop)
           /\ parked' = IF parked = <<>> THEN parked
                         ELSE [parked EXCEPT ![4] = Append(@, prop)]
           /\ ctor' = IF ctor.idx = Len(plan)
                      THEN [ctor EXCEPT !.pc = "done"]
                      ELSE [ctor EXCEPT !.pc = "read", !.idx = ctor.idx + 1]
    /\ pending' = <<>>
    /\ UNCHANGED <<cls, eufy_dev, remote, dev_type, poll, cyc, faults, stale, since, cur>>

\* self.properties[name] = Eufy...Property(self, name, {...}, value);
\* after the last one the constructor returns
BuildInsert ==
    /\ ctor.pc = "insert"
    /\ LET plan == BuildPlan(cls, eufy_dev)
       IN  /\ properties' = Append(properties, [name |-> plan[ctor.idx], value |-> pending[1]])
           /\ ctor' = IF ctor.idx = Len(plan)
                      THEN [ctor EXCEPT !.pc = "done"]
                      ELSE [ctor EXCEPT !.pc = "read", !.idx = ctor.idx + 1]
    /\ pending' = <<>>
    /\ UNCHANGED <<cls, eufy_dev, remote, dev_type, poll, cyc, faults, stale, since, parked, cur>>

(* ---------------------------- polling thread -------------------------- *)

Outcomes == {"ok", "BrokenPipeError", "OSError"}

\* a slip: BrokenPipeError is swallowed ('pass') and the refresh runs
AfterFirstUpdate_NoRecovery(outcome) ==
    CASE outcome = "ok" -> "refresh"
      [] outcome = "BrokenPipeError" -> "refresh"
      [] OTHER -> "crashed"

\* lines 47-49: what follows the first update() of a cycle; only
\* BrokenPipeError is caught, any other exception leaves poll()
AfterFirstUpdate(outcome) ==
    CASE outcome = "ok" -> "refresh"
      [] outcome = "BrokenPipeError" -> "connect"
      [] OTHER -> "crashed"

\* a slip: update() is retried whether or not connect() succeeded
AfterConnect_AlwaysUpdate(outcome) == "update2"

\* lines 50-54: what follows connect() in the recovery; OSError (of which
\* BrokenPipeError is a subclass) is caught and the cycle is skipped
AfterConnect(outcome) == IF outcome = "ok" THEN "update2" ELSE "sleep"

\* a slip: 'pass' instead of 'continue', the refresh runs after a failed retry
AfterSecondUpdate_NoContinue(outcome) == "refresh"

\* lines 50-54: what follows the second update() of a cycle
AfterSecondUpdate(outcome) == IF outcome = "ok" THEN "refresh" ELSE "sleep"

\* a call on the handle is entered in this cycle
Called(c, op) == [c EXCEPT !.calls = Append(@, [op |-> op, res |-> "pending"])]

\* the call in flight returns or raises
Returned(c, outcome) == [c EXCEPT !.calls[Len(c.calls)].res = outcome, !.last = outcome]

\* the fields update() fills
Fields(h) == <<h.power, h.brightness, h.temperature, h.colors>>

\* history after update() has returned: a change of the handle's fields ends
\* every run of refreshes over unchanged fields
AfterUpdate(sn, h, s) ==
    IF Fields(h) = <<s.power, s.brightness, s.temperature, s.colors>>
    THEN sn
    ELSE [sn EXCEPT !.same = {}]

\* line 45: time.sleep(_POLL_INTERVAL) returns; a new cycle's update() is next
Sleep ==
    /\ poll.pc = "sleep"
    /\ poll' = [poll EXCEPT !.pc = "update1"]
    /\ cyc' = NewCycle
    /\ UNCHANGED <<cls, eufy_dev, remote, properties, dev_type, ctor, faults, stale, pending,
                 since, parked, cur>>

\* lines 48, 52: self.eufy_dev.update() is entered
CallUpdate ==
    /\ poll.pc \in {"update1", "update2"}
    /\ eufy_dev.busy = "none"
    /\ eufy_dev' = [eufy_dev EXCEPT !.busy = "update"]
    /\ cyc' = Called(cyc, "update")
    /\ UNCHANGED <<cls, remote, properties, dev_type, ctor, poll, faults, stale, pending,
                 since, parked, cur>>

\* lines 48-49: the first update() of the cycle returns or raises
Update1Return ==
    /\ poll.pc = "update1"
    /\ eufy_dev.busy = "update"
    /\ \E outcome \in Outcomes :
         /\ outcome # "ok" => faults < MaxFailedCycles
         /\ eufy_dev' = IF outcome = "ok"
                        THEN Handle(eufy_dev.kind, remote, "none")
                        ELSE [eufy_dev EXCEPT !.busy = "none"]
         /\ poll' = [poll EXCEPT !.pc = AfterFirstUpdate(outcome)]
         /\ cyc' = [Returned(cyc, outcome) EXCEPT !.ok = (outcome = "ok")]
         /\ faults' = IF outcome = "ok" THEN faults ELSE faults + 1
         /\ stale' = IF outcome = "ok" THEN FALSE ELSE stale
         /\ since' = IF outcome = "ok" THEN AfterUpdate(since, eufy_dev, remote) ELSE since
    /\ UNCHANGED <<cls, remote, properties, dev_type, ctor, pending, parked, cur>>

\* line 51: self.eufy_dev.connect() is entered
CallConnect ==
    /\ poll.pc = "connect"
    /\ eufy_dev.busy = "none"
    /\ eufy_dev' = [eufy_dev EXCEPT !.busy = "connect"]
    /\ cyc' = Called(cyc, "connect")
    /\ UNCHANGED <<cls, remote, properties, dev_type, ctor, poll, faults, stale, pending,
                 since, parked, cur>>

\* lines 51, 53-54: connect() returns or raises
ConnectReturn ==
    /\ poll.pc = "connect"
    /\ eufy_dev.busy = "connect"
    /\ \E outcome \in Outcomes :
         /\ poll' = [poll EXCEPT !.pc = AfterConnect(outcome)]
         /\ cyc' = Returned(cyc, outcome)
    /\ eufy_dev' = [eufy_dev EXCEPT !.busy = "none"]
    /\ UNCHANGED <<cls, remote, properties, dev_type, ctor, faults, stale, pending, since,
                 parked, cur>>

\* lines 52-54: the second update() of the cycle returns or raises
Update2Return ==
    /\ poll.pc = "update2"
    /\ eufy_dev.busy = "update"
    /\ \E outcome \in Outcomes :
         /\ eufy_dev' = IF outcome = "ok"
                        THEN Handle(eufy_dev.kind, remote, "none")
                        ELSE [eufy_dev EXCEPT !.busy = "none"]
         /\ poll' = [poll EXCEPT !.pc = AfterSecondUpdate(outcome)]
         /\ cyc' = [Returned(cyc, outcome) EXCEPT !.ok = (outcome = "ok"),
                                                  !.recovered = (outcome = "ok")]
         /\ stale' = IF outcome = "ok" THEN FALSE ELSE stale
         /\ since' = IF outcome = "ok" THEN AfterUpdate(since, eufy_dev, remote) ELSE since
    /\ UNCHANGED <<cls, remote, properties, dev_type, ctor, faults, pending, parked, cur>>

\* line 56: iter(self.properties.values()); the iterator remembers the size
IterBegin ==
    /\ poll.pc = "refresh"
    /\ poll' = [pc |-> "iter", size |-> Len(properties), pos |-> 0]
    /\ UNCHANGED <<cls, eufy_dev, remote, properties, dev_type, ctor, cyc, faults, stale,
                 pending, since, parked, cur>>

\* prop.update() of the property at index i: the value is read from the
\* handle and published when it differs from the cached one
PropUpdate(props, i, h) ==
    IF ReadCurrentValue(props[i].name, h) # props[i].value
    THEN [props EXCEPT ![i].value = ReadCurrentValue(props[i].name, h)]
    ELSE props

\* a slip: every refresh notifies the gateway
PropNotifies_Always(props, i, h) == TRUE

\* prop.update() notifies the gateway when the value read differs from the
\* cached one
PropNotifies(props, i, h) == ReadCurrentValue(props[i].name, h) # props[i].value

\* a slip: the loop clears the type list when it ends
IterNext_ClearsType ==
    /\ poll.pc = "iter"
    /\ IF Len(properties) # poll.size
       THEN /\ poll' = [poll EXCEPT !.pc = "crashed"]
            /\ UNCHANGED <<properties, cyc, since, dev_type>>
       ELSE IF poll.pos < poll.size
       THEN LET name == properties[poll.pos + 1].name
            IN  /\ properties' = PropUpdate(properties, poll.pos + 1, eufy_dev)
                /\ poll' = [poll EXCEPT !.pos = poll.pos + 1]
                /\ cyc' = [cyc EXCEPT !.refreshed = Append(@, name),
                                      !.notified = IF PropNotifies(properties, poll.pos + 1, eufy_dev)
                                                   THEN Append(@, name) ELSE @]
                /\ since' = [same |-> since.same \cup {name},
                             wrote |-> IF name = "on" THEN FALSE ELSE since.wrote]
                /\ UNCHANGED dev_type
       ELSE /\ poll' = [poll EXCEPT !.pc = "sleep"]
            /\ dev_type' = <<>>
            /\ UNCHANGED <<properties, cyc, since>>
    /\ UNCHANGED <<cls, eufy_dev, remote, ctor, faults, stale, pending, parked, cur>>

\* lines 56-57: one step of the for loop: RuntimeError when the dict changed
\* size since line 56, else the next property is refreshed, else the loop ends
IterNext ==
    /\ poll.pc = "iter"
    /\ IF Len(properties) # poll.size
       THEN /\ poll' = [poll EXCEPT !.pc = "crashed"]
            /\ UNCHANGED <<properties, cyc, since>>
       ELSE IF poll.pos < poll.size
       THEN LET name == properties[poll.pos + 1].name
            IN  /\ properties' = PropUpdate(properties, poll.pos + 1, eufy_dev)
                /\ poll' = [poll EXCEPT !.pos = poll.pos + 1]
                /\ cyc' = [cyc EXCEPT !.refreshed = Append(@, name),
                                      !.notified = IF PropNotifies(properties, poll.pos + 1, eufy_dev)
                                                   THEN Append(@, name) ELSE @]
                /\ since' = [same |-> since.same \cup {name},
                             wrote |-> IF name = "on" THEN FALSE ELSE since.wrote]
       ELSE /\ poll' = [poll EXCEPT !.pc = "sleep"]
            /\ UNCHANGED <<properties, cyc, since>>
    /\ UNCHANGED <<cls, eufy_dev, remote, dev_type, ctor, faults, stale, pending, parked, cur>>

(* ------------------------------ environment --------------------------- *)

\* the physical device changes state (a wall switch, the vendor's app)
RemoteChange ==
    /\ \E s \in DevStates : s # remote /\ remote' = s
    /\ UNCHANGED <<cls, eufy_dev, properties, dev_type, ctor, poll, cyc, faults, stale,
                 pending, since, parked, cur>>

IndexOf(props, name) == CHOOSE i \in 1..Len(props) : props[i].name = name

\* a write of the 'on' property from the gateway, once the device is
\* registered: the change is forwarded through the handle to the device and,
\* on success, the cached value is set and published; the handle's fields are
\* filled by update() only
Write ==
    /\ ctor.pc = "done"
    /\ \E value \in BOOLEAN, ok \in BOOLEAN :
         IF ok
         THEN /\ remote' = [remote EXCEPT !.power = value]
              /\ properties' = [properties EXCEPT ![IndexOf(properties, "on")].value = value]
              /\ stale' = TRUE
              /\ since' = [since EXCEPT !.wrote = TRUE]
         ELSE UNCHANGED <<remote, properties, stale, since>>
    /\ UNCHANGED <<cls, eufy_dev, dev_type, ctor, poll, cyc, faults, pending, parked, cur>>

Construct ==
    \/ InitConnect
    \/ InitUpdate
    \/ StartThread
    \/ ExtendType
    \/ BuildRead
    \/ BuildInsert

Poll ==
    \/ Sleep
    \/ CallUpdate
    \/ Update1Return
    \/ CallConnect
    \/ ConnectReturn
    \/ Update2Return
    \/ IterBegin
    \/ IterNext

Next ==
    \/ Construct
    \/ Poll
    \/ RemoteChange
    \/ Write

Spec == Init /\ [][Next]_vars

\* the constructor, the polling thread and the device, without gateway writes
NextNoWrite ==
    \/ Construct
    \/ Poll
    \/ RemoteChange

SpecNoWrite == Init /\ [][NextNoWrite]_vars

\* a write that is serialized with the poll cycle: it falls between two cycles
WriteBetweenCycles == poll.pc \in {"sleep", "crashed"} /\ Write

\* the program with every write serialized with the poll cycle
NextSerialWrite ==
    \/ Construct
    \/ Poll
    \/ RemoteChange
    \/ WriteBetweenCycles

SpecSerialWrite == Init /\ [][NextSerialWrite]_vars

\* the constructor runs to its end and the polling thread is scheduled again
\* and again; the device changes when it will; no gateway writes
SpecFairNoWrite == SpecNoWrite /\ WF_vars(Construct) /\ WF_vars(Poll)

(* ------------------------------ two devices --------------------------- *)

\* everything one device owns: its object's attributes, its handle, its
\* physical device, its constructor call and its polling thread
Own == <<cls, eufy_dev, remote, properties, dev_type, ctor, poll, cyc, faults, stale,
         pending, since>>

\* a device about to be constructed: class c, handle of model k, physical
\* device in state s
Fresh(c, k, s) ==
    <<c, Handle(k, Blank, "none"), s, <<>>, <<>>,
      [pc |-> "connect", idx |-> 0, calls |-> <<>>, threads |-> 0],
      [pc |-> "unstarted", size |-> 0, pos |-> 0],
      NewCycle, 0, FALSE, <<>>, NoHistory>>

\* the adapter constructs a smart plug and a white bulb
InitFleet ==
    /\ LET d == Fresh("EufySwitch", "T1201", DevStateSeq[1])
       IN  /\ cls = d[1]
           /\ eufy_dev = d[2]
           /\ remote = d[3]
           /\ properties = d[4]
           /\ dev_type = d[5]
           /\ ctor = d[6]
           /\ poll = d[7]
           /\ cyc = d[8]
           /\ faults = d[9]
           /\ stale = d[10]
           /\ pending = d[11]
           /\ since = d[12]
    /\ parked = Fresh("EufyBulb", "T1012", DevStateSeq[2])
    /\ cur = 1

\* the scheduler turns to the threads of the other device
Switch ==
    /\ parked # <<>>
    /\ cls' = parked[1]
    /\ eufy_dev' = parked[2]
    /\ remote' = parked[3]
    /\ properties' = parked[4]
    /\ dev_type' = parked[5]
    /\ ctor' = parked[6]
    /\ poll' = parked[7]
    /\ cyc' = parked[8]
    /\ faults' = parked[9]
    /\ stale' = parked[10]
    /\ pending' = parked[11]
    /\ since' = parked[12]
    /\ parked' = Own
    /\ cur' = IF cur = 1 THEN 2 ELSE 1

\* the button on the smart plug is pressed
PlugToggled ==
    /\ cls = "EufySwitch"
    /\ remote' = [remote EXCEPT !.power = ~@]
    /\ UNCHANGED <<cls, eufy_dev, properties, dev_type, ctor, poll, cyc, faults, stale,
                 pending, since, parked, cur>>

NextFleet ==
    \/ Construct
    \/ Poll
    \/ PlugToggled
    \/ Switch

SpecFleet == InitFleet /\ [][NextFleet]_vars

(* ------------------------------- claims ------------------------------- *)

Names(props) == [i \in 1..Len(props) |-> props[i].name]

HasProp(name) == \E i \in 1..Len(properties) : properties[i].name = name

Published(name) == properties[IndexOf(properties, name)].value

\* every published value equals the value derived from the handle
Synced(props, h) ==
    \A i \in 1..Len(props) : props[i].value = ReadCurrentValue(props[i].name, h)

\* a step of the polling thread
PollStep == poll' # poll \/ eufy_dev'.busy # eufy_dev.busy

\* the step of lines 56-57 that refreshes one property
RefreshStep == poll.pc = "iter" /\ poll'.pc = "iter" /\ poll'.pos = poll.pos + 1

\* C1: the poll loop never terminates on its own: whatever update() and
\* connect() return or raise, the polling thread is never terminated.
C1_PollNeverTerminates == poll.pc # "crashed"

\* C2: a cycle recovered by connect() + update() goes on to refresh every owned
\* property: it ends with every property of the map refreshed, in order, it
\* raises no error and the loop continues.
C2_RecoveredCycleRefreshesAll ==
    [][ (cyc.recovered /\ poll.pc \in {"refresh", "iter"})
          => /\ poll'.pc # "crashed"
             /\ (poll'.pc = "sleep" => cyc'.refreshed = Names(properties')) ]_vars

\* the connect() or the second update() of the recovery raises
RecoveryFailed ==
    /\ poll.pc \in {"connect", "update2"}
    /\ eufy_dev.busy # "none"
    /\ eufy_dev'.busy = "none"
    /\ cyc'.last # "ok"

\* C3: when the recovery of a cycle fails, the loop goes back to sleep without
\* a refresh: no property refresh runs in a cycle whose latest call failed, and
\* no step of the polling thread before the refresh loop changes a published
\* value.
C3_SkippedCycle ==
    [][ /\ RecoveryFailed => (poll'.pc = "sleep" /\ properties' = properties)
        /\ cyc'.last \notin {"ok", "none"}
             => (cyc'.refreshed = <<>> /\ poll'.pc \notin {"refresh", "iter"})
        /\ (PollStep /\ poll.pc \in {"update1", "connect", "update2"})
             => properties' = properties ]_vars

C3_Witness ==
    /\ poll.pc = "sleep"
    /\ cyc.last = "OSError"
    /\ faults = 1
    /\ ctor.pc = "done"
    /\ ~Synced(properties, Handle(eufy_dev.kind, remote, "none"))

\* C4: a property is created or the polling thread started only after
\* connect() and then update() have both succeeded, in that order; when either
\* fails the constructor is left with the failure, no property exists and the
\* polling thread is not started.
C4_FailFastInit ==
    /\ (properties # <<>> \/ pending # <<>> \/ poll.pc # "unstarted")
         => ctor.calls = << [op |-> "connect", ok |-> TRUE], [op |-> "update", ok |-> TRUE] >>
    /\ (\E i \in 1..Len(ctor.calls) : ~ctor.calls[i].ok)
         => (ctor.pc = "failed" /\ properties = <<>> /\ pending = <<>> /\ poll.pc = "unstarted")
    /\ ctor.pc = "failed" => ~ctor.calls[Len(ctor.calls)].ok

C4_Witness ==
    /\ ctor.pc = "failed"
    /\ ctor.calls = << [op |-> "connect", ok |-> TRUE], [op |-> "update", ok |-> FALSE] >>

\* property i is between the refresh of the handle and its own refresh
InWindow(i) ==
    /\ poll.pc \in {"refresh", "iter"}
    /\ cyc.ok
    /\ (poll.pc = "refresh" \/ i > poll.pos)

\* C5: a published value differs from the value derived from the handle only
\* between a successful update() and that property's refresh in the same cycle;
\* in particular all are equal at the end of a cycle whose update() succeeded.
C5_Synchronized ==
    \A i \in 1..Len(properties) :
        properties[i].value # ReadCurrentValue(properties[i].name, eufy_dev) => InWindow(i)

\* C6: when the constructor returns, every published value equals the value
\* derived from the handle at that instant.
C6_SyncedOnReturn ==
    [][ (ctor.pc # "done" /\ ctor'.pc = "done") => Synced(properties', eufy_dev') ]_vars

C8_WriteNotClobbered ==
    [][ (RefreshStep /\ properties[poll.pos + 1].name = "on" /\ properties' # properties)
          => ~stale ]_vars

\* the property names the capability mapping gives a class and a model
Capability(c, kind) ==
    CASE c = "EufySwitch" -> {"on"}
      [] c = "EufyBulb" /\ kind = "T1013" -> {"on", "level", "color", "colorTemperature", "colorMode"}
      [] c = "EufyBulb" /\ kind = "T1012" -> {"on", "level", "colorTemperature"}
      [] OTHER -> {"on", "level"}

NameSet(props) == { props[i].name : i \in 1..Len(props) }

\* C9: once constructed, the property names of a device are those of the
\* capability mapping of its class and model, each present once, and colorMode
\* is present iff color and colorTemperature both are.
C9_CapabilityMapping ==
    ctor.pc = "done"
      => /\ NameSet(properties) = Capability(cls, eufy_dev.kind)
         /\ Len(properties) = Cardinality(NameSet(properties))
         /\ HasProp("colorMode") <=> (HasProp("color") /\ HasProp("colorTemperature"))

C9_Witness ==
    /\ ctor.pc = "done"
    /\ cls = "EufyBulb"
    /\ eufy_dev.kind = "T1013"
    /\ Len(properties) = 5
    /\ poll.pc = "iter"

ColorLaw(h) == color_mode(h) = "temperature" <=> color(h) = "#000000"

\* the polling thread is not in the refresh loop
Quiescent == poll.pc \in {"unstarted", "sleep", "update1", "connect", "update2"}

\* C10: color_mode() is "temperature" exactly when color() is "#000000", and
\* outside the refresh loop the published colorMode of a full-color bulb is
\* "temperature" iff its published color is "#000000".
C10_ColorSentinel ==
    /\ ColorLaw(eufy_dev)
    /\ \A s \in DevStates : ColorLaw(Handle(eufy_dev.kind, s, "none"))
    /\ (HasProp("color") /\ HasProp("colorMode") /\ Quiescent)
         => (Published("colorMode") = "temperature" <=> Published("color") = "#000000")

\* the refresh step notifies the gateway
NotifyStep == RefreshStep /\ cyc'.notified # cyc.notified

\* the refresh step leaves the published values alone and notifies nobody
QuietStep == properties' = properties /\ cyc'.notified = cyc.notified

\* C11 (as stated): a refresh notifies only when the value read differs from
\* the last published one, and a refresh of a property that was refreshed
\* before, with the handle's fields unchanged since, changes nothing and
\* notifies nobody.
C11_RefreshIdempotent ==
    [][ RefreshStep
          => LET i == poll.pos + 1
             IN  /\ NotifyStep
                      => ReadCurrentValue(properties[i].name, eufy_dev) # properties[i].value
                 /\ properties[i].name \in since.same => QuietStep ]_vars

\* C11 (amended): a refresh notifies only when the value read differs from the
\* last published one, and a refresh of a property that was refreshed before,
\* with the handle's fields unchanged and the property not written since,
\* changes nothing and notifies nobody.
C11_RefreshIdempotentUnwritten ==
    [][ RefreshStep
          => LET i == poll.pos + 1
             IN  /\ NotifyStep
                      => ReadCurrentValue(properties[i].name, eufy_dev) # properties[i].value
                 /\ (properties[i].name \in since.same
                       /\ ~(properties[i].name = "on" /\ since.wrote)) => QuietStep ]_vars

C11_Witness ==
    /\ ctor.pc = "done"
    /\ poll.pc = "iter"
    /\ poll.pos >= 1
    /\ poll.pos < poll.size
    /\ properties[poll.pos].name \in since.same
    /\ properties[poll.pos + 1].name \in since.same
    /\ cyc.notified = <<>>
    /\ since.wrote

\* the threads started for the device so far: none before line 40, one after
OneTask(c) == c.threads = IF c.pc \in {"connect", "update", "thread", "failed"} THEN 0 ELSE 1

\* C12: with two devices, a step of one device's constructor or polling
\* thread (a failed, skipped or terminated cycle included) leaves the other
\* device's handle, published properties and polling thread unchanged, and
\* each device, once past line 40, has had exactly one polling thread started.
C12_DeviceIndependence ==
    /\ [](OneTask(ctor) /\ OneTask(parked[6]))
    /\ [][cur' = cur => parked' = parked]_vars

\* one device's thread has died in its first refresh while the other
\* device's thread is in the middle of a refresh loop
C12_Witness ==
    /\ parked # <<>>
    /\ poll.pc = "crashed"
    /\ ctor.threads = 1
    /\ parked[6].threads = 1
    /\ parked[7].pc = "iter"
    /\ parked[7].pos >= 1

\* the handle has been initialized: connect() and update() both returned
HandleInitialized ==
    ctor.calls = <<[op |-> "connect", ok |-> TRUE], [op |-> "update", ok |-> TRUE]>>

\* C13: the polling thread exists only once the handle has been initialized
\* and the constructor has stored the last property, and it is never inside
\* the refresh loop while the constructor is still inserting properties.
C13_StartOrdering ==
    /\ poll.pc # "unstarted" => HandleInitialized /\ ctor.pc = "done"
    /\ poll.pc = "iter" => ctor.pc = "done"

\* the handle calls of the current cycle, oldest first
Ops == [i \in 1..Len(cyc.calls) |-> cyc.calls[i].op]

\* C14: the handle calls of a poll cycle are update(), then connect() only
\* when that update() raised BrokenPipeError, then a second update() only
\* when that connect() succeeded, and nothing more; no property is refreshed
\* before the cycle's first update().
C14_BoundedRecovery ==
    /\ Ops \in {<<>>, <<"update">>, <<"update", "connect">>, <<"update", "connect", "update">>}
    /\ Len(cyc.calls) >= 2 => cyc.calls[1].res = "BrokenPipeError"
    /\ Len(cyc.calls) >= 3 => cyc.calls[2].res = "ok"
    /\ cyc.refreshed # <<>> => Len(cyc.calls) >= 1
    /\ poll.pc \in {"connect", "update2"} => Len(cyc.calls) >= 1

\* a cycle in which the recovery ran in full and its update() failed: three
\* calls, and the thread is back at the sleep
C14_Witness ==
    /\ Len(cyc.calls) = 3
    /\ cyc.calls[3].res = "OSError"
    /\ poll.pc = "sleep"

\* C15: update() fails in finitely many cycles only; with the polling thread
\* scheduled fairly, once the device is constructed every published value
\* eventually equals the value derived from the handle, and a step of a cycle
\* whose latest call failed leaves the published values as they were.
C15_Resynchronizes ==
    /\ (ctor.pc = "done") ~> Synced(properties, eufy_dev)
    /\ [][ (PollStep /\ cyc'.last \notin {"ok", "none"}) => properties' = properties ]_vars

\* the refresh loop of a cycle whose update() succeeded ends
LoopEnds == cyc.ok /\ poll.pc \in {"refresh", "iter"} /\ poll'.pc \notin {"refresh", "iter"}

\* C16: the refresh loop of a cycle whose update() succeeded ends normally,
\* with every property the map then holds refreshed exactly once, in insertion
\* order (color, colorTemperature, colorMode, level, on for a T1013 bulb whose
\* constructor has returned), and once the
\* first property of a cycle is refreshed the cycle makes no further call of
\* update() or connect().
C16_CompleteRefresh ==
    [][ /\ LoopEnds => /\ poll'.pc = "sleep"
                       /\ cyc'.refreshed = Names(properties')
        /\ (LoopEnds /\ ctor.pc = "done" /\ cls = "EufyBulb" /\ eufy_dev.kind = "T1013")
              => cyc'.refreshed = <<"color", "colorTemperature", "colorMode", "level", "on">>
        /\ cyc.refreshed # <<>> => (cyc'.calls = cyc.calls \/ cyc'.refreshed = <<>>)
        /\ RefreshStep => eufy_dev.busy = "none" ]_vars

\* the key set of the property map and the type list stay as they are
SameShape == Names(properties') = Names(properties) /\ dev_type' = dev_type

\* C17: once the constructor has returned no step changes the names of the
\* device's properties or its type list, and a step of the polling thread,
\* whenever it runs, changes neither: it changes property values only.
C17_StablePropertySet ==
    [][ /\ ctor.pc = "done" => SameShape
        /\ PollStep => SameShape ]_vars

\* a full-colour bulb after construction, at the end of a cycle in which a
\* refresh changed a published value
C17_Witness ==
    /\ ctor.pc = "done"
    /\ Len(properties) = 5
    /\ poll.pc = "sleep"
    /\ cyc.notified # <<>>
    /\ cyc.refreshed = Names(properties)

====
